---- MODULE Spec2Model ----
(***************************************************************************)
(* A model of yt_insight_generator.py: one run of main(), from argument    *)
(* parsing to the streamed response written to the destination file.       *)
(*                                                                         *)
(* Text is a sequence of one-character strings.  A Python value that may   *)
(* be None is a sequence of length 0 (None) or 1 (the value).              *)
(***************************************************************************)
EXTENDS Naturals, Sequences, FiniteSets

VARIABLES
    argv,       \* the command line: source, destination, author, tags
    confFile,   \* ~/.config/openai.token: None, or its contents
    environ,    \* OPENAI_API_KEY in the environment: None, or its value
    dest0,      \* the destination file before the run: None, or its contents
    destFile,   \* the destination file on disk: None, or its contents
    pc,         \* the statement of main() about to run
    err,        \* the exception that ended the run, "" while there is none
    failedAt,   \* the statement that raised it, "" while there is none
    video_id,   \* main's video_id
    api_key,    \* the key get_api_key returned
    envRead,    \* whether os.environ.get was called
    netCalls,   \* the network calls made so far, in order
    rendered,   \* the tags value given to template.render
    fdState,    \* the destination file handle
    fdBuf,      \* text written to the handle and not yet on disk
    opens,      \* how often the destination was opened
    stdout,     \* what was printed
    delivered   \* the chunks the stream delivered, in order

vars == <<argv, confFile, environ, dest0, destFile, pc, err, failedAt,
          video_id, api_key, envRead, netCalls, rendered, fdState, fdBuf,
          opens, stdout, delivered>>

-----------------------------------------------------------------------------
(* Bounds *)

MaxChunks == 3
MaxQueryLen == 7
MaxFileLen == 3

-----------------------------------------------------------------------------
(* Python values *)

None == <<>>
Some(x) == <<x>>
Val(o) == o[1]

StringsUpTo(alphabet, n) == UNION {[1..k -> alphabet] : k \in 0..n}

AI_TAG == <<"a", "i", "-", "g", "e", "n", "e", "r", "a", "t", "e", "d">>

Whitespace == {" ", "\n"}

RECURSIVE LStrip(_)
LStrip(s) ==
    IF s = <<>> THEN s
    ELSE IF Head(s) \in Whitespace THEN LStrip(Tail(s)) ELSE s

RECURSIVE RStrip(_)
RStrip(s) ==
    IF s = <<>> THEN s
    ELSE IF s[Len(s)] \in Whitespace THEN RStrip(SubSeq(s, 1, Len(s) - 1)) ELSE s

\* a mutant of Strip: only the end of the text is stripped
StripRightOnly(s) == RStrip(s)

\* str.strip()
Strip(s) == LStrip(RStrip(s))

\* get_conf_file_contents(): None when the file does not exist
get_conf_file_contents(file) ==
    IF file = None THEN None ELSE Some(Strip(Val(file)))

\* a mutant of get_api_key: an empty key counts as missing (`if not api_key`)
get_api_key_falsy(file, env) ==
    LET conf == get_conf_file_contents(file)
        consult == conf = None \/ conf = Some(<<>>)
        key == IF consult THEN env ELSE conf
    IN  [key |-> key, envRead |-> consult, raised |-> key = None \/ key = Some(<<>>)]

\* get_api_key(): the key, whether the environment was consulted, whether
\* KnownError was raised
get_api_key(file, env) ==
    LET conf == get_conf_file_contents(file)
        consult == conf = None
        key == IF consult THEN env ELSE conf
    IN  [key |-> key, envRead |-> consult, raised |-> key = None]


-----------------------------------------------------------------------------
(* urllib.parse.parse_qs, as get_video_id calls it: separator "&",         *)
(* keep_blank_values and strict_parsing off.  The model's alphabet holds   *)
(* no "%", so of the decoding only "+" to " " acts.                        *)

QueryAlphabet == {"v", "x", "=", "&", "+"}

IndexOf(s, c) ==
    IF \E i \in 1..Len(s) : s[i] = c
    THEN CHOOSE i \in 1..Len(s) : s[i] = c /\ \A j \in 1..(i - 1) : s[j] # c
    ELSE 0

\* str.split(sep)
RECURSIVE Split(_, _)
Split(s, sep) ==
    LET i == IndexOf(s, sep)
    IN  IF i = 0 THEN <<s>>
        ELSE <<SubSeq(s, 1, i - 1)>> \o Split(SubSeq(s, i + 1, Len(s)), sep)

\* str.split(sep, 1)
SplitOnce(s, sep) ==
    LET i == IndexOf(s, sep)
    IN  IF i = 0 THEN <<s>>
        ELSE <<SubSeq(s, 1, i - 1), SubSeq(s, i + 1, Len(s))>>

\* str.replace('+', ' ') followed by unquote
QsDecode(s) == [i \in 1..Len(s) |-> IF s[i] = "+" THEN " " ELSE s[i]]

\* parse_qsl's loop over the "&"-separated fields: a field without "=" or
\* with nothing after it is dropped
RECURSIVE QslPairs(_)
QslPairs(fields) ==
    IF fields = <<>> THEN <<>>
    ELSE LET nv == SplitOnce(Head(fields), "=")
         IN  (IF Len(nv) = 2 /\ Len(nv[2]) > 0
              THEN <<[name |-> QsDecode(nv[1]), value |-> QsDecode(nv[2])]>>
              ELSE <<>>) \o QslPairs(Tail(fields))

parse_qsl(qs) == IF qs = <<>> THEN <<>> ELSE QslPairs(Split(qs, "&"))

RECURSIVE ValuesOf(_, _)
ValuesOf(pairs, name) ==
    IF pairs = <<>> THEN <<>>
    ELSE (IF Head(pairs).name = name THEN <<Head(pairs).value>> ELSE <<>>)
         \o ValuesOf(Tail(pairs), name)

\* parse_qs(qs).get(name): None, or the list of the name's values
QsGet(qs, name) ==
    LET values == ValuesOf(parse_qsl(qs), name)
    IN  IF values = <<>> THEN None ELSE Some(values)

\* a mutant of get_video_id: the last value of `v` instead of the first
get_video_id_last(query) ==
    LET video_ids == QsGet(query, <<"v">>)
    IN  [raised |-> video_ids = None,
         value  |-> IF video_ids = None THEN None
                    ELSE Some(Val(video_ids)[Len(Val(video_ids))])]

\* get_video_id(video_url), on the URL's query component: whether KnownError
\* was raised, and the value returned
get_video_id(query) ==
    LET video_ids == QsGet(query, <<"v">>)
    IN  [raised |-> video_ids = None,
         value  |-> IF video_ids = None THEN None ELSE Some(Val(video_ids)[1])]

-----------------------------------------------------------------------------
(* Prompt rendering and output *)

Sep == <<",", " ">>

\* str.join
RECURSIVE Join(_, _)
Join(sep, list) ==
    IF list = <<>> THEN <<>>
    ELSE IF Len(list) = 1 THEN list[1]
    ELSE list[1] \o sep \o Join(sep, Tail(list))

\* ", ".join(args.tags + [AI_TAG]): None when args.tags is None, where the
\* list concatenation raises TypeError
TagsValue(tags) ==
    IF tags = None THEN None ELSE Some(Join(Sep, Val(tags) \o <<AI_TAG>>))

\* a mutant of DeltaText: an absent delta is printed as text
DeltaTextStr(content) ==
    IF content = None THEN <<"N", "o", "n", "e">> ELSE Val(content)

\* chunk.choices[0].delta.content or ""
DeltaText(content) ==
    IF content = None \/ content = Some(<<>>) THEN <<>> ELSE Val(content)

\* a mutant of OpenWrite: the file is opened in append mode
OpenAppend(file) == IF file = None THEN Some(<<>>) ELSE file

\* open(destination, "w"): the file is created or truncated
OpenWrite(file) == Some(<<>>)

\* a mutant of CloseFile: the buffered text is dropped
CloseNoFlush(file, buf) == file

\* closing the handle flushes its buffer
CloseFile(file, buf) == Some(Val(file) \o buf)

\* a mutant of WithExit: the handle stays as it is when an exception leaves
\* the block
NoWithExit(state) == state

\* the handle on leaving the with block, normally or by an exception
WithExit(state) == "closed"

\* a mutant of Succ: the request is made again when the stream ends
SuccRetry(p) ==
    CASE p = "args" -> "video_id"
      [] p = "video_id" -> "transcript"
      [] p = "transcript" -> "api_key"
      [] p = "api_key" -> "render"
      [] p = "render" -> "request"
      [] p = "request" -> "open"
      [] p = "open" -> "stream"
      [] p = "stream" -> "request"

\* the statement of main() that follows statement p when p raises nothing
Succ(p) ==
    CASE p = "args" -> "video_id"
      [] p = "video_id" -> "transcript"
      [] p = "transcript" -> "api_key"
      [] p = "api_key" -> "render"
      [] p = "render" -> "request"
      [] p = "request" -> "open"
      [] p = "open" -> "stream"
      [] p = "stream" -> "done"

-----------------------------------------------------------------------------
(* The run of main() *)

\* an exception leaves main(): nothing catches it and the process ends
Raise(at, e) ==
    /\ pc' = "failed"
    /\ err' = e
    /\ failedAt' = at

NoRaise ==
    /\ pc' = Succ(pc)
    /\ UNCHANGED <<err, failedAt>>

World == <<argv, confFile, environ, dest0>>

\* args = get_args(): argparse exits when a required flag is missing
GetArgs ==
    /\ pc = "args"
    /\ IF argv.source = None \/ ~argv.destination \/ ~argv.author
       THEN Raise("args", "SystemExit")
       ELSE NoRaise
    /\ UNCHANGED <<World, destFile, video_id, api_key, envRead, netCalls,
                   rendered, fdState, fdBuf, opens, stdout, delivered>>

\* video_id = get_video_id(args.source)
GetVideoId ==
    /\ pc = "video_id"
    /\ LET r == get_video_id(Val(argv.source))
       IN  IF r.raised
           THEN Raise("video_id", "KnownError") /\ UNCHANGED video_id
           ELSE NoRaise /\ video_id' = r.value
    /\ UNCHANGED <<World, destFile, api_key, envRead, netCalls, rendered,
                   fdState, fdBuf, opens, stdout, delivered>>

\* transcript = ... YouTubeTranscriptApi.get_transcript(video_id)
FetchTranscript ==
    /\ pc = "transcript"
    /\ netCalls' = Append(netCalls, "transcript")
    /\ \E ok \in BOOLEAN :
          IF ok THEN NoRaise ELSE Raise("transcript", "UpstreamError")
    /\ UNCHANGED <<World, destFile, video_id, api_key, envRead, rendered,
                   fdState, fdBuf, opens, stdout, delivered>>

\* client = OpenAI(api_key=get_api_key())
ResolveApiKey ==
    /\ pc = "api_key"
    /\ LET r == get_api_key(confFile, environ)
       IN  /\ envRead' = r.envRead
           /\ IF r.raised
              THEN Raise("api_key", "KnownError") /\ UNCHANGED api_key
              ELSE NoRaise /\ api_key' = r.key
    /\ UNCHANGED <<World, destFile, video_id, netCalls, rendered, fdState,
                   fdBuf, opens, stdout, delivered>>

\* template.render(..., tags=", ".join(args.tags + [AI_TAG]), ...)
RenderPrompt ==
    /\ pc = "render"
    /\ LET tags == TagsValue(argv.tags)
       IN  IF tags = None
           THEN Raise("render", "TypeError") /\ UNCHANGED rendered
           ELSE NoRaise /\ rendered' = tags
    /\ UNCHANGED <<World, destFile, video_id, api_key, envRead, netCalls,
                   fdState, fdBuf, opens, stdout, delivered>>

\* stream = client.chat.completions.create(..., stream=True)
RequestCompletion ==
    /\ pc = "request"
    /\ netCalls' = Append(netCalls, "completion")
    /\ \E ok \in BOOLEAN :
          IF ok THEN NoRaise ELSE Raise("request", "UpstreamError")
    /\ UNCHANGED <<World, destFile, video_id, api_key, envRead, rendered,
                   fdState, fdBuf, opens, stdout, delivered>>

\* with open(os.path.expanduser(args.destination), "w") as fd
OpenDestination ==
    /\ pc = "open"
    /\ \E ok \in BOOLEAN :
          IF ok
          THEN /\ NoRaise
               /\ destFile' = OpenWrite(destFile)
               /\ fdState' = "open"
               /\ fdBuf' = <<>>
               /\ opens' = opens + 1
          ELSE /\ Raise("open", "OSError")
               /\ UNCHANGED <<destFile, fdState, fdBuf, opens>>
    /\ UNCHANGED <<World, video_id, api_key, envRead, netCalls, rendered,
                   stdout, delivered>>

Chunks == {None, Some(<<>>), Some(<<"a">>), Some(<<"b">>)}

\* one turn of `for chunk in stream`: print(data, end="") and fd.write(data);
\* the write may or may not carry the handle's buffer to the disk
StreamChunk ==
    /\ pc = "stream"
    /\ Len(delivered) < MaxChunks
    /\ \E content \in Chunks, flush \in BOOLEAN :
          LET data == DeltaText(content)
          IN  /\ stdout' = stdout \o data
              /\ IF flush
                 THEN /\ destFile' = Some(Val(destFile) \o fdBuf \o data)
                      /\ fdBuf' = <<>>
                 ELSE /\ fdBuf' = fdBuf \o data
                      /\ UNCHANGED destFile
              /\ delivered' = Append(delivered, content)
    /\ UNCHANGED <<World, pc, err, failedAt, video_id, api_key, envRead,
                   netCalls, rendered, fdState, opens>>

\* the stream ends: print(""), then the with block closes the file
StreamEnd ==
    /\ pc = "stream"
    /\ stdout' = stdout \o <<"\n">>
    /\ destFile' = CloseFile(destFile, fdBuf)
    /\ fdBuf' = <<>>
    /\ fdState' = WithExit(fdState)
    /\ NoRaise
    /\ UNCHANGED <<World, video_id, api_key, envRead, netCalls, rendered,
                   opens, delivered>>

\* the stream raises: the with block closes the file, the exception goes on
StreamFail ==
    /\ pc = "stream"
    /\ fdState' = WithExit(fdState)
    /\ IF fdState' = "closed"
       THEN destFile' = CloseFile(destFile, fdBuf) /\ fdBuf' = <<>>
       ELSE UNCHANGED <<destFile, fdBuf>>
    /\ Raise("stream", "UpstreamError")
    /\ UNCHANGED <<World, video_id, api_key, envRead, netCalls, rendered,
                   opens, stdout, delivered>>

RunInit ==
    /\ destFile = dest0
    /\ pc = "args"
    /\ err = ""
    /\ failedAt = ""
    /\ video_id = None
    /\ api_key = None
    /\ envRead = FALSE
    /\ netCalls = <<>>
    /\ rendered = None
    /\ fdState = "unopened"
    /\ fdBuf = <<>>
    /\ opens = 0
    /\ stdout = <<>>
    /\ delivered = <<>>

Tag1 == <<"t">>
Tag2 == <<"u">>
GoodQuery == <<"v", "=", "x">>
GoodArgs == [source |-> Some(GoodQuery), destination |-> TRUE, author |-> TRUE,
             tags |-> Some(<<Tag1>>)]

\* every kind of run: flags missing or given, a URL with and without `v`,
\* -t omitted or given, the key in the file, the environment, both or neither
Init ==
    /\ argv \in [source : {None, Some(GoodQuery), Some(<<"x", "=", "x">>)},
                 destination : BOOLEAN,
                 author : BOOLEAN,
                 tags : {None, Some(<<Tag1>>), Some(<<Tag2, Tag1>>)}]
    /\ confFile \in {None, Some(<<"k", "\n">>)}
    /\ environ \in {None, Some(<<"e">>)}
    /\ dest0 \in {None, Some(<<"z">>)}
    /\ RunInit

Next ==
    \/ GetArgs
    \/ GetVideoId
    \/ FetchTranscript
    \/ ResolveApiKey
    \/ RenderPrompt
    \/ RequestCompletion
    \/ OpenDestination
    \/ StreamChunk
    \/ StreamEnd
    \/ StreamFail

Spec == Init /\ [][Next]_vars

\* get_video_id on every query string of the alphabet up to MaxQueryLen
InitVideoId ==
    /\ argv \in {[GoodArgs EXCEPT !.source = Some(q)] :
                    q \in StringsUpTo(QueryAlphabet, MaxQueryLen)}
    /\ confFile = None
    /\ environ = Some(<<"e">>)
    /\ dest0 = None
    /\ RunInit

NextVideoId == GetArgs \/ GetVideoId

SpecVideoId == InitVideoId /\ [][NextVideoId]_vars

\* get_api_key on every config file and environment value up to MaxFileLen
KeyAlphabet == {" ", "\n", "k"}

InitApiKey ==
    /\ argv = GoodArgs
    /\ confFile \in {None} \cup {Some(s) : s \in StringsUpTo(KeyAlphabet, MaxFileLen)}
    /\ environ \in {None} \cup {Some(s) : s \in StringsUpTo(KeyAlphabet, MaxFileLen)}
    /\ dest0 = None
    /\ RunInit

NextApiKey == GetArgs \/ GetVideoId \/ FetchTranscript \/ ResolveApiKey

SpecApiKey == InitApiKey /\ [][NextApiKey]_vars

-----------------------------------------------------------------------------
(* The claims *)

\* the text the chunks carry: a chunk without a delta carries none
RECURSIVE ExpectedText(_)
ExpectedText(chunks) ==
    IF chunks = <<>> THEN <<>>
    ELSE (IF Head(chunks) = None THEN <<>> ELSE Val(Head(chunks)))
         \o ExpectedText(Tail(chunks))

\* C1: the API key is resolved before any network call is made, and a run
\* with no resolvable key fails without having made a network call.
C1_KeyBeforeNetwork ==
    /\ netCalls # <<>> => api_key # None
    /\ failedAt = "api_key" => netCalls = <<>>

\* C2: when the run reaches Done the destination file holds the
\* concatenation of the chunks' text deltas in delivery order, a chunk with
\* an absent or empty delta adding nothing.
C2_FileIsConcatenation ==
    pc = "done" => destFile = Some(ExpectedText(delivered))

C2_Witness ==
    /\ pc = "done"
    /\ delivered = <<Some(<<"a">>), None, Some(<<"b">>)>>
    /\ destFile = Some(<<"a", "b">>)

UserTags == IF argv.tags = None THEN <<>> ELSE Val(argv.tags)

RenderAttempted ==
    \/ pc \in {"request", "open", "stream", "done"}
    \/ failedAt \in {"render", "request", "open", "stream"}

\* C3: in every run that reaches prompt rendering, with -t given or omitted,
\* the rendered tags value is the user's tags in order followed by
\* ai-generated, joined by ", ", and the run goes on to the request.
C3_TagsAlwaysRendered ==
    RenderAttempted =>
        /\ rendered = Some(Join(Sep, UserTags \o <<AI_TAG>>))
        /\ failedAt # "render"

VideoIdDone == pc = "transcript" \/ failedAt = "video_id"

\* the `v` parameters of a query string: the fields named v, each with the
\* text after its first "=" (none when the field has no "=")
RECURSIVE VValues(_)
VValues(fields) ==
    IF fields = <<>> THEN <<>>
    ELSE LET f == Head(fields)
             i == IndexOf(f, "=")
             name == IF i = 0 THEN f ELSE SubSeq(f, 1, i - 1)
             value == IF i = 0 THEN <<>> ELSE SubSeq(f, i + 1, Len(f))
         IN  (IF name = <<"v">> THEN <<value>> ELSE <<>>) \o VValues(Tail(fields))

VOf(query) == VValues(Split(query, "&"))

NonBlank(values) == SelectSeq(values, LAMBDA x : x # <<>>)

\* C4 as stated: the first value of `v` is returned whenever the query
\* string has a `v` parameter, and KnownError is raised whenever it has none.
C4_FirstValueWheneverPresent ==
    VideoIdDone =>
        LET vs == VOf(Val(argv.source))
        IN  IF vs # <<>>
            THEN pc = "transcript" /\ video_id = Some(QsDecode(vs[1]))
            ELSE failedAt = "video_id" /\ err = "KnownError" /\ video_id = None

\* C4, amended: the first non-empty value of `v` is returned whenever some
\* `v` parameter has a non-empty value, and KnownError is raised, with no
\* value returned, whenever none has (so whenever there is no `v` at all).
C4_FirstNonBlankValue ==
    VideoIdDone =>
        LET vs == NonBlank(VOf(Val(argv.source)))
        IN  IF vs # <<>>
            THEN pc = "transcript" /\ video_id = Some(QsDecode(vs[1]))
            ELSE failedAt = "video_id" /\ err = "KnownError" /\ video_id = None

C4_Witness ==
    /\ argv.source = Some(<<"x", "=", "v", "&", "v", "=", "x">>)
    /\ pc = "transcript"
    /\ video_id = Some(<<"x">>)

KeyDone == pc = "render" \/ failedAt = "api_key"

\* k is s without its leading and trailing whitespace
IsTrimOf(k, s) ==
    \E i, j \in 0..Len(s) :
        /\ i + j <= Len(s)
        /\ k = SubSeq(s, i + 1, Len(s) - j)
        /\ \A n \in 1..i : s[n] \in Whitespace
        /\ \A n \in (Len(s) - j + 1)..Len(s) : s[n] \in Whitespace
        /\ k # <<>> => k[1] \notin Whitespace /\ k[Len(k)] \notin Whitespace

\* C5: with neither config file nor environment variable get_api_key raises
\* KnownError; with only the variable it returns the value verbatim; with
\* only the file it returns the contents without leading and trailing
\* whitespace.
C5_KeyResolution ==
    KeyDone =>
        /\ (confFile = None /\ environ = None) =>
              failedAt = "api_key" /\ err = "KnownError" /\ api_key = None
        /\ (confFile = None /\ environ # None) =>
              pc = "render" /\ api_key = environ
        /\ (confFile # None /\ environ = None) =>
              /\ pc = "render"
              /\ api_key # None
              /\ IsTrimOf(Val(api_key), Val(confFile))

C5_Witness ==
    /\ pc = "render"
    /\ confFile = Some(<<" ", "k", "\n">>)
    /\ environ = None
    /\ api_key = Some(<<"k">>)

\* C9: whenever the config file exists the key is its trimmed contents and
\* the environment is not consulted, also when both are set and when the
\* file is empty or whitespace only (the key is then the empty string and no
\* error is raised).
C9_FilePrecedence ==
    (KeyDone /\ confFile # None) =>
        /\ pc = "render"
        /\ err = ""
        /\ ~envRead
        /\ api_key # None
        /\ IsTrimOf(Val(api_key), Val(confFile))

C9_Witness ==
    /\ pc = "render"
    /\ confFile = Some(<<" ", "\n">>)
    /\ environ = Some(<<"k">>)
    /\ api_key = Some(<<>>)
    /\ ~envRead

Phase(p) ==
    CASE p \in {"args", "video_id"} -> "Idle"
      [] p \in {"transcript", "api_key", "render", "request", "open"} -> "Fetching"
      [] p = "stream" -> "Streaming"
      [] p = "done" -> "Done"
      [] p = "failed" -> "Failed"

PhaseSteps ==
    {<<"Idle", "Idle">>, <<"Idle", "Fetching">>, <<"Fetching", "Fetching">>,
     <<"Fetching", "Streaming">>, <<"Streaming", "Streaming">>,
     <<"Streaming", "Done">>, <<"Idle", "Failed">>, <<"Fetching", "Failed">>,
     <<"Streaming", "Failed">>}

PhaseStep == <<Phase(pc), Phase(pc')>> \in PhaseSteps

\* C6: a run goes Idle, Fetching, Streaming, Done in this order, a failure
\* in any of them goes to Failed, and nothing follows Done or Failed.
C6_StateMachine ==
    [][PhaseStep]_vars

C6_Witness ==
    /\ pc = "done"
    /\ Len(delivered) = 2
    /\ netCalls = <<"transcript", "completion">>

\* C7: the destination is opened at most once and its handle is closed in
\* every terminal state: after Done, after a failure while streaming; a run
\* that fails before the open never opened it.
C7_FileClosed ==
    /\ opens <= 1
    /\ pc \in {"done", "failed"} => fdState # "open"
    /\ pc = "done" => fdState = "closed" /\ opens = 1
    /\ failedAt = "stream" => fdState = "closed" /\ opens = 1
    /\ (pc = "failed" /\ failedAt # "stream") =>
          fdState = "unopened" /\ opens = 0

C7_Witness ==
    /\ failedAt = "stream"
    /\ Len(delivered) = 2
    /\ fdState = "closed"

\* C8: when the stream raises after k chunks the run ends in Failed, the
\* destination file holds the deltas of those k chunks in order, and the
\* trailing newline is not printed.
C8_TruncatedPrefix ==
    failedAt = "stream" =>
        /\ pc = "failed"
        /\ destFile = Some(ExpectedText(delivered))
        /\ stdout = ExpectedText(delivered)

C8_Witness ==
    /\ failedAt = "stream"
    /\ delivered = <<Some(<<"a">>), Some(<<"b">>)>>
    /\ destFile = Some(<<"a", "b">>)
    /\ stdout = <<"a", "b">>

ReachedStreaming == pc \in {"stream", "done"} \/ failedAt = "stream"

\* C10: only a run that reaches Streaming creates or changes the
\* destination file; one that does discards what the file held, even when
\* the stream delivers no chunk or fails on the first.
C10_FileFrame ==
    /\ ~ReachedStreaming => destFile = dest0
    /\ ReachedStreaming =>
          /\ destFile # None
          /\ Val(destFile) \o fdBuf = ExpectedText(delivered)

C10_Witness ==
    /\ failedAt = "stream"
    /\ delivered = <<>>
    /\ dest0 = Some(<<"z">>)
    /\ destFile = Some(<<>>)

=============================================================================
